---- MODULE Spec2Model ----
(***************************************************************************)
(* The peer directory (modules/peers.js) and the peer transport            *)
(* (modules/transport.js) of the node, as a state machine.                 *)
(*                                                                         *)
(* Conventions of the model:                                               *)
(*   - an optional value (a JavaScript value that may be undefined/null)   *)
(*     is a sequence of length <= 1: <<>> is undefined/null, <<v>> is v;   *)
(*   - a string column that is NULL holds the string Null;                 *)
(*   - a query that the code sends with library.db.query takes effect in   *)
(*     the step that sends it; a job added to dbSequence takes effect      *)
(*     when the sequence runs it (DbSequenceRun);                          *)
(*   - the database itself does not fail (the .catch branches are not      *)
(*     taken).                                                             *)
(***************************************************************************)
EXTENDS Integers, Sequences, FiniteSets, TLC

VARIABLES
  db,          \* the peers table: a function from <<ip, port>> to a row
  removed,     \* peers.js: var removed = [] (the RemovedCache)
  now,         \* Date.now(), in milliseconds
  dbSequence,  \* library.dbSequence: the jobs added and not yet run
  loaded,      \* transport.js: __private.loaded
  boot,        \* how far Peers.onBlockchainReady has come
  messages,    \* transport.js: __private.messages (set of hashes)
  dappCalls,   \* the modules.dapps.message calls in progress (set of hashes)
  dappCount,   \* how often modules.dapps.message was invoked, per hash
  refresh,     \* the refresh cycle (updatePeersList) in progress
  out,         \* the broadcast in progress
  ev           \* what the last step did: the handler and its results

vars == <<db, removed, now, dbSequence, loaded, boot, messages, dappCalls,
          dappCount, refresh, out, ev>>

----------------------------------------------------------------------------
(* Bounds of the model *)

MaxTicks == 1
MaxQueue == 2
MaxRemoved == 3

----------------------------------------------------------------------------
(* Values *)

Null == "null"
UndefIp == "undefined"
UndefPort == 0 - 1

BANNED == 0
DISCONNECTED == 1
CONNECTED == 2

SeedIp == "1.1.1.1"
OtherIp == "2.2.2.2"
Ips == {SeedIp, OtherIp}
PortA == 8000

\* the (ip, port) keys that rows of the table can have in the model
PeerKeys == {<<SeedIp, PortA>>, <<OtherIp, PortA>>}

\* library.config.peers = {list: [...], options: {...}}
config_peers_list == << [ip |-> SeedIp, port |-> PortA] >>

\* the values lodash's _.find visits when it is given the object
\* library.config.peers: the list array and the options object; neither has
\* an ip or a port property
config_peers == << [ip |-> UndefIp, port |-> UndefPort],
                   [ip |-> UndefIp, port |-> UndefPort] >>

config_nethash == "nethash-ours"
currentVersion == "5.2.0"

\* constants.minVersion
minVersion == "0.5.0"

\* library.config.peers.options.maxUpdatePeers: not set
config_maxUpdatePeers == << >>

\* the bodies of dapp messages and their hash sums
Bodies == {"b1", "b2"}
Hashes == {"h1", "h2"}

----------------------------------------------------------------------------
(* sql/peers.js: the queries, by what the specification says they do *)

NewRow(st, os, version) ==
  [state |-> st, clock |-> <<>>, os |-> os, version |-> version]

Put(d, key, row) ==
  [k \in (DOMAIN d) \cup {key} |-> IF k = key THEN row ELSE d[k]]

\* UPDATE peers SET state, clock WHERE ip, port
sql_state(d, params) ==
  LET key == <<params.ip, params.port>> IN
  IF key \in DOMAIN d
    THEN [d EXCEPT ![key] = [@ EXCEPT !.state = params.state, !.clock = params.clock]]
    ELSE d

\* DELETE FROM peers WHERE ip, port
sql_remove(d, params) ==
  [k \in (DOMAIN d) \ {<<params.ip, params.port>>} |-> d[k]]

\* upsert by (ip, port); the explicit state is written; os and version are
\* written if non-null
sql_upsertWithState(d, params) ==
  LET key == <<params.ip, params.port>> IN
  IF key \in DOMAIN d
    THEN [d EXCEPT ![key] =
            [@ EXCEPT !.state = params.state,
                      !.os = IF params.os # Null THEN params.os ELSE @,
                      !.version = IF params.version # Null THEN params.version ELSE @]]
    ELSE Put(d, key, NewRow(params.state, params.os, params.version))

\* upsert by (ip, port); state defaults to DISCONNECTED on insert and is left
\* untouched on update
sql_upsertWithoutState(d, params) ==
  LET key == <<params.ip, params.port>> IN
  IF key \in DOMAIN d
    THEN [d EXCEPT ![key] =
            [@ EXCEPT !.os = IF params.os # Null THEN params.os ELSE @,
                      !.version = IF params.version # Null THEN params.version ELSE @]]
    ELSE Put(d, key, NewRow(DISCONNECTED, params.os, params.version))

\* insert a seed row, ignoring conflicts
sql_insertSeed(d, params) ==
  LET key == <<params.ip, params.port>> IN
  IF key \in DOMAIN d THEN d ELSE Put(d, key, NewRow(params.state, Null, Null))

\* clears clock and restores state to DISCONNECTED for all peers whose clock <= now
sql_banManager(d, params) ==
  [k \in DOMAIN d |->
     IF d[k].clock # <<>> /\ d[k].clock[1] <= params.now
       THEN [d[k] EXCEPT !.state = DISCONNECTED, !.clock = <<>>]
       ELSE d[k]]

\* the keys sql.randomList can return: peers with state = BANNED are excluded
sql_randomList(d) ==
  {k \in DOMAIN d : d[k].state # BANNED}

sql_count(d) ==
  Cardinality(DOMAIN d)

----------------------------------------------------------------------------
(* modules/peers.js *)

\* timeoutSeconds || 1
OrOne(timeoutSeconds) ==
  IF timeoutSeconds = <<>> \/ timeoutSeconds = <<0>> THEN 1 ELSE timeoutSeconds[1]

\* _.find(collection, peer => peer.ip === pip && peer.port === port) !== undefined
find(collection, pip, port) ==
  \E i \in DOMAIN collection :
     collection[i].ip = pip /\ collection[i].port = port

\* Peers.prototype.state: the whitelist test
state_isFrozenList(pip, port) ==
  find(config_peers, pip, port)

\* a clock with a floor of one second: now + max(timeoutSeconds, 1) * 1000
state_clock_max(st, timeoutSeconds, nowv) ==
  IF st = 0
    THEN <<nowv + (IF timeoutSeconds = <<>> \/ timeoutSeconds[1] < 1
                     THEN 1 ELSE timeoutSeconds[1]) * 1000>>
    ELSE <<>>

\* Peers.prototype.state: the clock it stores
state_clock(st, timeoutSeconds, nowv) ==
  IF st = 0 THEN <<nowv + OrOne(timeoutSeconds) * 1000>> ELSE <<>>

\* Peers.prototype.state: the error given to cb and the table afterwards
state(d, pip, port, st, timeoutSeconds, cb, nowv) ==
  IF state_isFrozenList(pip, port) /\ cb
    THEN [err |-> "Peer in white list", db |-> d]
    ELSE [err |-> "",
          db |-> sql_state(d, [state |-> st,
                               clock |-> state_clock(st, timeoutSeconds, nowv),
                               ip |-> pip, port |-> port])]

\* a whitelist test of remove on config.peers, as the one of state
remove_isFrozenList_config(pip, port) ==
  find(config_peers, pip, port)

\* Peers.prototype.remove: the whitelist test
remove_isFrozenList(pip, port) ==
  find(config_peers_list, pip, port)

\* Peers.prototype.remove: the error given to cb, the table and the removed
\* array afterwards
remove(d, rem, pip, port, cb) ==
  IF remove_isFrozenList(pip, port) /\ cb
    THEN [err |-> "Peer in white list", db |-> d, removed |-> rem]
    ELSE [err |-> "",
          db |-> sql_remove(d, [ip |-> pip, port |-> port]),
          removed |-> Append(rem, pip)]

\* x || null, for a string x ("" is the falsy string, also used for undefined)
OrNull(x) ==
  IF x = "" THEN Null ELSE x

\* Peers.prototype.update: peer.state is optional
update(d, peer) ==
  LET params == [ip |-> peer.ip, port |-> peer.port,
                 os |-> OrNull(peer.os), version |-> OrNull(peer.version),
                 state |-> 1]
  IN IF peer.state # <<>>
       THEN sql_upsertWithState(d, [params EXCEPT !.state = peer.state[1]])
       ELSE sql_upsertWithoutState(d, params)

\* Peers.prototype.inspect: port and the defaults of os and version; the
\* port is optional on input (<<>> is a missing or non-numeric port)
inspect(peer) ==
  [ip |-> peer.ip,
   port |-> IF peer.port = <<>> THEN 0 ELSE peer.port[1],
   os |-> IF peer.os = "" THEN "unknown" ELSE peer.os,
   version |-> IF peer.version = "" THEN "0.0.0" ELSE peer.version,
   state |-> peer.state]

----------------------------------------------------------------------------
(* What a step reports: the handler that ran (op), the error it gave to its
   callback (err), the HTTP response it sent (status, body, error, expected,
   received) and the calls it made *)

NoEv ==
  [op |-> "none", err |-> "", status |-> 0, body |-> "", error |-> "",
   expected |-> "", received |-> "",
   removes |-> 0, bans |-> <<>>, updates |-> 0, forging |-> FALSE,
   routed |-> "", bus |-> "", balances |-> 0, dapps |-> 0, cleared |-> 0,
   shrunk |-> 0]

\* the refresh cycle at rest; enqueued counts the updates that the cycle has
\* added to dbSequence
RefreshIdle ==
  [pc |-> "idle", owner |-> "", tries |-> 0, target |-> <<>>, peers |-> <<>>,
   flight |-> <<>>, err |-> "", enqueued |-> 0]

BroadcastIdle ==
  [pc |-> "idle", peers |-> <<>>, next |-> 1, flight |-> {}, errored |-> FALSE,
   called |-> 0, pending |-> 0]

Init ==
  /\ db = << >>
  /\ removed = << >>
  /\ now = 0
  /\ dbSequence = << >>
  /\ loaded = FALSE
  /\ boot = [pc |-> "init", next |-> 1]
  /\ messages = {}
  /\ dappCalls = {}
  /\ dappCount = [h \in Hashes |-> 0]
  /\ refresh = RefreshIdle
  /\ out = BroadcastIdle
  /\ ev = NoEv

----------------------------------------------------------------------------
(* Time, the ban manager, the write sequence *)

\* two seconds pass
Tick ==
  /\ now < MaxTicks * 2000
  /\ now' = now + 2000
  /\ ev' = [NoEv EXCEPT !.op = "tick"]
  /\ UNCHANGED <<db, removed, dbSequence, loaded, boot, messages, dappCalls,
                 dappCount, refresh, out>>

\* a ban manager whose query gets a time two hours ahead of Date.now()
banManager_ahead ==
  /\ boot.pc = "peersReady"
  /\ db' = sql_banManager(db, [now |-> now + 7200000])
  /\ ev' = [NoEv EXCEPT !.op = "banManager",
                        !.cleared = Cardinality({k \in DOMAIN db : db'[k] # db[k]})]
  /\ UNCHANGED <<removed, now, dbSequence, loaded, boot, messages, dappCalls,
                 dappCount, refresh, out>>

\* __private.banManager, run by the loop that onPeersReady starts; the
\* result of the query is the number of the rows it has changed
banManager ==
  /\ boot.pc = "peersReady"
  /\ db' = sql_banManager(db, [now |-> now])
  /\ ev' = [NoEv EXCEPT !.op = "banManager",
                        !.cleared = Cardinality({k \in DOMAIN db : db'[k] # db[k]})]
  /\ UNCHANGED <<removed, now, dbSequence, loaded, boot, messages, dappCalls,
                 dappCount, refresh, out>>

\* a sequence that runs the job enqueued last
DbSequenceRun_last ==
  /\ dbSequence # << >>
  /\ db' = update(db, dbSequence[Len(dbSequence)])
  /\ ev' = [NoEv EXCEPT !.op = "update"]
  /\ dbSequence' = SubSeq(dbSequence, 1, Len(dbSequence) - 1)
  /\ UNCHANGED <<removed, now, loaded, boot, messages, dappCalls, dappCount,
                 refresh, out>>

\* library.dbSequence runs its first job: function (cb) { peers.update(peer, cb) }
DbSequenceRun ==
  /\ dbSequence # << >>
  /\ db' = update(db, Head(dbSequence))
  /\ ev' = [NoEv EXCEPT !.op = "update"]
  /\ dbSequence' = Tail(dbSequence)
  /\ UNCHANGED <<removed, now, loaded, boot, messages, dappCalls, dappCount,
                 refresh, out>>

----------------------------------------------------------------------------
(* Calls of the public methods of Peers by the other modules *)

TimeoutArgs == {<<>>, <<0>>, <<1>>, <<0 - 1>>}

\* modules.peers.state(ip, port, state, timeoutSeconds[, cb])
callState(key, st, timeoutSeconds, cb) ==
  /\ loaded
  /\ LET r == state(db, key[1], key[2], st, timeoutSeconds, cb, now) IN
       /\ db' = r.db
       /\ ev' = [NoEv EXCEPT !.op = "state", !.err = r.err]
  /\ UNCHANGED <<removed, now, dbSequence, loaded, boot, messages, dappCalls,
                 dappCount, refresh, out>>

\* modules.peers.remove(ip, port[, cb])
callRemove(key, cb) ==
  /\ loaded
  /\ LET r == remove(db, removed, key[1], key[2], cb) IN
       /\ Len(r.removed) <= MaxRemoved
       /\ db' = r.db
       /\ removed' = r.removed
       /\ ev' = [NoEv EXCEPT !.op = "remove", !.err = r.err]
  /\ UNCHANGED <<now, dbSequence, loaded, boot, messages, dappCalls, dappCount,
                 refresh, out>>

----------------------------------------------------------------------------
(* modules/transport.js: the inbound peer API *)

\* schema.headers: port, os, version, nethash and ip are required, port is
\* an integer of 1..65535
headers_isValid(headers) ==
  /\ headers.ip # ""
  /\ headers.port \in 1..65535
  /\ headers.os # ""
  /\ headers.version # ""
  /\ headers.nethash # ""

\* __private.banPeer: always with a callback
banPeer(d, options, nowv) ==
  state(d, options.peer.ip, options.peer.port, 0, <<options.clock>>, TRUE, nowv)

\* a removePeer that calls peers.remove twice
removePeer_twice(d, rem, options) ==
  LET r == remove(d, rem, options.peer.ip, options.peer.port, TRUE)
  IN remove(r.db, r.removed, options.peer.ip, options.peer.port, TRUE)

\* __private.removePeer: always with a callback
removePeer(d, rem, options) ==
  remove(d, rem, options.peer.ip, options.peer.port, TRUE)

\* __private.hashsum: a digest of the body; the timestamp is not used
hashsum(obj, timestamp) ==
  IF obj = "b1" THEN "h1" ELSE "h2"

\* what a route handler leaves behind and answers, before it has run
R0 ==
  [db |-> db, messages |-> messages, dappCalls |-> dappCalls,
   dappCount |-> dappCount, status |-> 0, body |-> "", error |-> "",
   bans |-> <<>>, bus |-> "", balances |-> 0, dapps |-> 0]

\* a handler of POST /blocks that bans for ten minutes
postBlocks_600(peer, body) ==
  IF body.ok
    THEN [R0 EXCEPT !.bus = "receiveBlock", !.status = 200, !.body = "success:true"]
    ELSE [R0 EXCEPT !.db = banPeer(db, [peer |-> peer, clock |-> 600], now).db,
                    !.bans = <<600>>,
                    !.status = 200, !.body = "success:false",
                    !.error = "objectNormalize"]

\* router.post('/blocks'); body.ok: objectNormalize does not throw
postBlocks(peer, body) ==
  IF body.ok
    THEN [R0 EXCEPT !.bus = "receiveBlock", !.status = 200, !.body = "success:true"]
    ELSE [R0 EXCEPT !.db = banPeer(db, [peer |-> peer, clock |-> 3600], now).db,
                    !.bans = <<3600>>,
                    !.status = 200, !.body = "success:false",
                    !.error = "objectNormalize"]

\* router.post('/transactions'); on success the answer is sent by the job
\* added to balancesSequence
postTransactions(peer, body) ==
  IF body.ok
    THEN [R0 EXCEPT !.balances = 1]
    ELSE [R0 EXCEPT !.db = banPeer(db, [peer |-> peer, clock |-> 3600], now).db,
                    !.bans = <<3600>>,
                    !.status = 200, !.body = "success:false",
                    !.error = "Invalid transaction body"]

\* a handler that does not record the hash
dappMessageMark_none(msgs, hash) ==
  msgs

\* router.post('/dapp/message'): __private.messages[req.body.hash] = true
dappMessageMark(msgs, hash) ==
  msgs \cup {hash}

\* router.post('/dapp/message'), up to the call of modules.dapps.message,
\* whose callback sends the answer
postDappMessage(peer, body) ==
  IF ~body.dappid
    THEN [R0 EXCEPT !.status = 200, !.body = "success:false", !.error = "Missing dappid"]
  ELSE IF ~body.timestamp \/ body.hash = ""
    THEN [R0 EXCEPT !.status = 200, !.body = "success:false", !.error = "Missing hash sum"]
  ELSE IF hashsum(body.body, body.timestamp) # body.hash
    THEN [R0 EXCEPT !.status = 200, !.body = "success:false", !.error = "Invalid hash sum"]
  ELSE IF body.hash \in messages
    THEN [R0 EXCEPT !.status = 200, !.body = "not sent"]
  ELSE [R0 EXCEPT !.messages = dappMessageMark(messages, body.hash),
                  !.dappCalls = dappCalls \cup {body.hash},
                  !.dappCount = [dappCount EXCEPT ![body.hash] = @ + 1],
                  !.dapps = 1]

\* router.get('/list') and router.get('/height'): answers that change nothing
getRoute(peer, body) ==
  [R0 EXCEPT !.status = 200, !.body = "success:true"]

Route(route, peer, body) ==
  CASE route = "POST /blocks" -> postBlocks(peer, body)
    [] route = "POST /transactions" -> postTransactions(peer, body)
    [] route = "POST /dapp/message" -> postDappMessage(peer, body)
    [] OTHER -> getRoute(peer, body)

\* a loading gate that answers 500 and still queues an update of the sender
InboundLoading_update ==
  /\ ~loaded
  /\ Len(dbSequence) < MaxQueue
  /\ dbSequence' = Append(dbSequence,
                          [ip |-> OtherIp, port |-> PortA, state |-> <<2>>,
                           os |-> "linux", version |-> currentVersion])
  /\ ev' = [NoEv EXCEPT !.op = "inbound", !.status = 500, !.body = "success:false",
                        !.error = "Blockchain is loading", !.updates = 1]
  /\ UNCHANGED <<db, removed, now, loaded, boot, messages,
                 dappCalls, dappCount, refresh, out>>

\* the first router.use: the answer while the blockchain is loading
InboundLoading ==
  /\ ~loaded
  /\ ev' = [NoEv EXCEPT !.op = "inbound", !.status = 500, !.body = "success:false",
                        !.error = "Blockchain is loading"]
  /\ UNCHANGED <<db, removed, now, dbSequence, loaded, boot, messages,
                 dappCalls, dappCount, refresh, out>>

\* a framing that takes every peer of our network for a current one
framing_isCurrent_any(peer, headers) ==
  headers.nethash = config_nethash

\* the framing middleware: the peer runs our version on our network
framing_isCurrent(peer, headers) ==
  peer.version = currentVersion /\ headers.nethash = config_nethash

\* the second router.use (the framing of the request) and the route handler.
\* ip: x-forwarded-for or the remote address; hdr: the request headers;
\* lastReceipt: whether modules.blocks.lastReceipt() is set
Inbound(ip, hdr, lastReceipt, route, body) ==
  /\ loaded
  /\ LET peer0 == inspect([ip |-> ip, port |-> hdr.port, os |-> "",
                           version |-> "", state |-> <<>>])
         headers == [ip |-> peer0.ip, port |-> peer0.port, os |-> hdr.os,
                     version |-> hdr.version, nethash |-> hdr.nethash]
     IN
     IF ~headers_isValid(headers) THEN
       LET r == removePeer(db, removed, [peer |-> peer0, code |-> "EHEADERS"]) IN
         /\ Len(r.removed) <= MaxRemoved
         /\ db' = r.db
         /\ removed' = r.removed
         /\ ev' = [NoEv EXCEPT !.op = "inbound", !.err = r.err, !.removes = 1,
                               !.status = 500, !.body = "status:false",
                               !.error = "issues"]
         /\ UNCHANGED <<dbSequence, messages, dappCalls, dappCount>>
     ELSE IF headers.nethash # config_nethash THEN
       LET r == removePeer(db, removed, [peer |-> peer0, code |-> "ENETHASH"]) IN
         /\ Len(r.removed) <= MaxRemoved
         /\ db' = r.db
         /\ removed' = r.removed
         /\ ev' = [NoEv EXCEPT !.op = "inbound", !.err = r.err, !.removes = 1,
                               !.status = 200, !.body = "success:false",
                               !.error = "Request is made on the wrong network",
                               !.expected = config_nethash,
                               !.received = headers.nethash]
         /\ UNCHANGED <<dbSequence, messages, dappCalls, dappCount>>
     ELSE
       LET peer == [peer0 EXCEPT !.state = <<2>>, !.os = headers.os,
                                 !.version = headers.version]
           enq == framing_isCurrent(peer, headers)
           rt == Route(route, peer, body)
       IN
         /\ enq => Len(dbSequence) < MaxQueue
         /\ dbSequence' = IF enq THEN Append(dbSequence, peer) ELSE dbSequence
         /\ db' = rt.db
         /\ messages' = rt.messages
         /\ dappCalls' = rt.dappCalls
         /\ dappCount' = rt.dappCount
         /\ removed' = removed
         /\ ev' = [NoEv EXCEPT !.op = "inbound",
                               !.updates = IF enq THEN 1 ELSE 0,
                               !.forging = enq /\ ~lastReceipt,
                               !.routed = route,
                               !.status = rt.status, !.body = rt.body,
                               !.error = rt.error, !.bans = rt.bans,
                               !.bus = rt.bus, !.balances = rt.balances,
                               !.dapps = rt.dapps]
  /\ UNCHANGED <<now, loaded, boot, refresh, out>>

\* the callback of modules.dapps.message(dappid, body, cb)
dappMessageDone(hash, err) ==
  /\ hash \in dappCalls
  /\ dappCalls' = dappCalls \ {hash}
  /\ ev' = IF err
             THEN [NoEv EXCEPT !.op = "dappMessageDone", !.status = 200,
                               !.body = "success:false"]
             ELSE [NoEv EXCEPT !.op = "dappMessageDone", !.status = 200,
                               !.body = "success:true", !.bus = "message"]
  /\ UNCHANGED <<db, removed, now, dbSequence, loaded, boot, messages,
                 dappCount, refresh, out>>

\* request headers of the model
Hdr(port, os, version, nethash) ==
  [port |-> port, os |-> os, version |-> version, nethash |-> nethash]

HdrOk == Hdr(<<PortA>>, "linux", currentVersion, config_nethash)
HdrOld == Hdr(<<PortA>>, "linux", "5.1.0", config_nethash)
HdrNet == Hdr(<<PortA>>, "linux", currentVersion, "nethash-other")
HdrNoOs == Hdr(<<PortA>>, "", currentVersion, config_nethash)
HdrNoPort == Hdr(<<>>, "linux", currentVersion, config_nethash)

HdrBsd == Hdr(<<PortA>>, "freebsd", currentVersion, config_nethash)

Headers == {HdrOk, HdrOld, HdrNet, HdrNoOs, HdrNoPort}

NoBody == [ok |-> TRUE, dappid |-> FALSE, timestamp |-> FALSE, body |-> "", hash |-> ""]

ObjectBodies == {[NoBody EXCEPT !.ok = b] : b \in BOOLEAN}

DappBodies ==
  {[NoBody EXCEPT !.dappid = d, !.timestamp = t, !.body = b, !.hash = h] :
     d \in BOOLEAN, t \in BOOLEAN, b \in Bodies, h \in Hashes \cup {""}}

----------------------------------------------------------------------------
(* modules/transport.js: outbound requests *)

Outcomes ==
  {"ok", "ok-old", "status", "headers", "nethash", "EUNAVAILABLE", "ETIMEOUT",
   "ECONNREFUSED"}

\* what a request leaves behind, before its outcome is handled
G0 ==
  [db |-> db, removed |-> removed, dbSequence |-> dbSequence, err |-> "",
   removes |-> 0, bans |-> <<>>, updates |-> 0]

\* a getFromPeer that bans the peer for every transport error
getFromPeer_banAll(row, outcome) ==
  LET peer == inspect([ip |-> row.ip, port |-> <<row.port>>, os |-> row.os,
                       version |-> row.version, state |-> <<row.state>>])
      rm == removePeer(db, removed, [peer |-> peer, code |-> outcome])
  IN
  CASE outcome \in {"status", "headers", "nethash"} ->
         [G0 EXCEPT !.db = rm.db, !.removed = rm.removed, !.removes = 1,
                    !.err = outcome]
    [] outcome = "ok" ->
         [G0 EXCEPT !.dbSequence =
                       Append(dbSequence,
                              [ip |-> peer.ip, port |-> peer.port, state |-> <<2>>,
                               os |-> "linux", version |-> currentVersion]),
                    !.updates = 1]
    [] outcome = "ok-old" -> G0
    [] OTHER ->
         [G0 EXCEPT !.db = banPeer(db, [peer |-> peer, clock |-> 600], now).db,
                    !.bans = <<600>>, !.err = "Request failed"]

\* Transport.prototype.getFromPeer: request.then and request.catch, for a
\* row that peers.list returned and the outcome of the request
getFromPeer(row, outcome) ==
  LET peer == inspect([ip |-> row.ip, port |-> <<row.port>>, os |-> row.os,
                       version |-> row.version, state |-> <<row.state>>])
      rm == removePeer(db, removed, [peer |-> peer, code |-> outcome])
  IN
  CASE outcome \in {"status", "headers", "nethash"} ->
         [G0 EXCEPT !.db = rm.db, !.removed = rm.removed, !.removes = 1,
                    !.err = outcome]
    [] outcome \in {"EUNAVAILABLE", "ETIMEOUT"} ->
         [G0 EXCEPT !.db = rm.db, !.removed = rm.removed, !.removes = 1,
                    !.err = "Request failed"]
    [] outcome = "ok" ->
         [G0 EXCEPT !.dbSequence =
                       Append(dbSequence,
                              [ip |-> peer.ip, port |-> peer.port, state |-> <<2>>,
                               os |-> "linux", version |-> currentVersion]),
                    !.updates = 1]
    [] outcome = "ok-old" -> G0
    [] OTHER ->
         [G0 EXCEPT !.db = banPeer(db, [peer |-> peer, clock |-> 600], now).db,
                    !.bans = <<600>>, !.err = "Request failed"]

\* the rows of the table as sql.randomList selects them
RowOf(d, key) ==
  [ip |-> key[1], port |-> key[2], state |-> d[key].state, os |-> d[key].os,
   version |-> d[key].version]

\* the sequences without repetition of exactly n elements of S
RECURSIVE Arrangements(_, _)
Arrangements(S, n) ==
  IF n = 0 \/ S = {} THEN {<< >>}
  ELSE UNION {{<<x>> \o r : r \in Arrangements(S \ {x}, n - 1)} : x \in S}

Min(a, b) == IF a < b THEN a ELSE b

\* a list whose query does not exclude the banned peers
list_all(d, options) ==
  LET keys == DOMAIN d
      n == Min(options.limit, Cardinality(keys))
  IN {[i \in 1..n |-> RowOf(d, a[i])] : a \in Arrangements(keys, n)}

\* Peers.prototype.list: the results the query can give, in random order,
\* at most options.limit rows
list(d, options) ==
  LET keys == sql_randomList(d)
      n == Min(options.limit, Cardinality(keys))
  IN {[i \in 1..n |-> RowOf(d, a[i])] : a \in Arrangements(keys, n)}

\* Transport.prototype.broadcast: peers.list, then async.eachLimit(peers, 3,
\* ...) starts the requests to the first three peers at once; with no peer
\* its callback runs at once
broadcast ==
  /\ out.pc = "idle"
  /\ \E rows \in list(db, [limit |-> 100]) :
       LET k == Min(3, Len(rows)) IN
       out' = [BroadcastIdle EXCEPT !.pc = "fanout", !.peers = rows,
                                    !.next = k + 1, !.flight = 1..k,
                                    !.called = IF rows = << >> THEN 1 ELSE 0]
  /\ ev' = [NoEv EXCEPT !.op = "broadcast"]
  /\ UNCHANGED <<db, removed, now, dbSequence, loaded, boot, messages,
                 dappCalls, dappCount, refresh>>

\* the request to peers[i] ends and getFromPeer calls the iteratee's callback.
\* With an error, async.eachLimit runs its callback (once) and starts no
\* request from then on; without one it starts the request to the next peer,
\* or runs its callback when no peer is left and no request is in flight
broadcastResponse(i, outcome) ==
  /\ out.pc = "fanout"
  /\ i \in out.flight
  /\ LET g == getFromPeer(out.peers[i], outcome)
         running == out.flight \ {i}
         more == ~out.errored /\ g.err = "" /\ out.next <= Len(out.peers)
         calls == g.err # "" \/ (~more /\ running = {})
     IN
       /\ Len(g.removed) <= MaxRemoved
       /\ Len(g.dbSequence) <= MaxQueue
       /\ db' = g.db
       /\ removed' = g.removed
       /\ dbSequence' = g.dbSequence
       /\ out' = [out EXCEPT
                    !.flight = IF more THEN running \cup {out.next} ELSE running,
                    !.next = IF more THEN @ + 1 ELSE @,
                    !.errored = @ \/ g.err # "",
                    !.called = IF calls /\ @ = 0 THEN 1 ELSE @,
                    !.pending = IF calls /\ out.called = 0
                                  THEN Cardinality(running) ELSE @]
       /\ ev' = [NoEv EXCEPT !.op = "broadcastResponse", !.err = g.err,
                             !.removes = g.removes, !.bans = g.bans,
                             !.updates = g.updates]
  /\ UNCHANGED <<now, loaded, boot, messages, dappCalls, dappCount, refresh>>

\* the broadcast is over: no request is in flight and none will be started
broadcastDone ==
  /\ out.pc = "fanout"
  /\ out.flight = {}
  /\ out.errored \/ out.next > Len(out.peers)
  /\ out' = BroadcastIdle
  /\ ev' = [NoEv EXCEPT !.op = "broadcastDone"]
  /\ UNCHANGED <<db, removed, now, dbSequence, loaded, boot, messages,
                 dappCalls, dappCount, refresh>>

\* Transport.prototype.onNewBlock(block, broadcast); onSignature,
\* onUnconfirmedTransaction and onMessage differ in the api and the data only
onNewBlock(bc) ==
  IF bc
    THEN broadcast
    ELSE /\ ev' = [NoEv EXCEPT !.op = "onNewBlock"]
         /\ UNCHANGED <<db, removed, now, dbSequence, loaded, boot, messages,
                        dappCalls, dappCount, refresh, out>>

\* Transport.prototype.cleanup
cleanup ==
  /\ loaded
  /\ loaded' = FALSE
  /\ ev' = [NoEv EXCEPT !.op = "cleanup"]
  /\ UNCHANGED <<db, removed, now, dbSequence, boot, messages, dappCalls,
                 dappCount, refresh, out>>

----------------------------------------------------------------------------
(* modules/peers.js: the refresh cycle *)

\* the characters of the version strings of the model, as character codes
Chars(v) ==
  CASE v = "5.2.0" -> <<53, 46, 50, 46, 48>>
    [] v = "5.1.0" -> <<53, 46, 49, 46, 48>>
    [] v = "0.5.0" -> <<48, 46, 53, 46, 48>>
    [] v = "0.0.1" -> <<48, 46, 48, 46, 49>>
    [] v = "0.0.0" -> <<48, 46, 48, 46, 48>>
    [] v = "10.0.0" -> <<49, 48, 46, 48, 46, 48>>
    [] OTHER -> << >>

\* a < b for two JavaScript strings: the first character that differs
\* decides, a proper prefix is smaller
RECURSIVE SeqLess(_, _)
SeqLess(a, b) ==
  IF b = << >> THEN FALSE
  ELSE IF a = << >> THEN TRUE
  ELSE IF Head(a) # Head(b) THEN Head(a) < Head(b)
  ELSE SeqLess(Tail(a), Tail(b))

StrLess(a, b) == SeqLess(Chars(a), Chars(b))

\* Array.prototype.indexOf: the first index (from 0) of x in s, or -1
IndexOf(s, x) ==
  IF \E i \in DOMAIN s : s[i] = x
    THEN (CHOOSE i \in DOMAIN s : s[i] = x /\ \A j \in 1..(i - 1) : s[j] # x) - 1
    ELSE 0 - 1

\* schema.updatePeersList.peers: an object with an array peers of unique items
peers_isValid(body) ==
  /\ body # << >>
  /\ \A i, j \in DOMAIN body[1] : i # j => body[1][i] # body[1][j]

\* schema.updatePeersList.peer, for a peer that inspect returned
peer_isValid(peer) ==
  /\ peer.ip # ""
  /\ peer.port \in 1..65535
  /\ peer.state # << >>
  /\ peer.state[1] \in 0..2
  /\ peer.os # ""
  /\ Len(Chars(peer.version)) \in 5..12

\* res.body.peers.filter(function (peer) { return removed.indexOf(peer.ip); })
updatePeersList_filter(rem, peers) ==
  LET keep(peer) == IndexOf(rem, peer.ip) # 0
  IN SelectSeq(peers, keep)

\* Math.floor(library.config.peers.options.maxUpdatePeers) || 20
maxUpdatePeers ==
  IF config_maxUpdatePeers = << >> \/ config_maxUpdatePeers = <<0>>
    THEN 20 ELSE config_maxUpdatePeers[1]

\* a refresh cycle that keeps the whole list
updatePeersList_slice_none(peers) == peers

\* peers.slice(0, maxUpdatePeers) when peers is longer
updatePeersList_slice(peers) ==
  IF Len(peers) > maxUpdatePeers THEN SubSeq(peers, 1, maxUpdatePeers) ELSE peers

\* a cycle that drops the oldest entry only
updatePeersList_shrink_shift(rem) ==
  IF rem = << >> THEN << >> ELSE Tail(rem)

\* removed.shift(); removed.pop()
updatePeersList_shrink(rem) ==
  IF Len(rem) <= 2 THEN << >> ELSE SubSeq(rem, 2, Len(rem) - 1)

\* __private.updatePeersList is called: by onBlockchainReady (owner "boot")
\* or by the loop of onPeersReady (owner "loop")
updatePeersList(owner) ==
  [RefreshIdle EXCEPT !.pc = "retry", !.owner = owner]

\* a retry that gives up after 21 failed attempts
attemptFailed_21(r, err) ==
  IF r.tries + 1 >= 21
    THEN [r EXCEPT !.pc = "done", !.tries = @ + 1, !.target = << >>, !.err = err]
    ELSE [r EXCEPT !.pc = "retry", !.tries = @ + 1, !.target = << >>]

\* a retry whose final error is always that of the empty list
attemptFailed_fixed(r, err) ==
  IF r.tries + 1 >= 20
    THEN [r EXCEPT !.pc = "done", !.tries = @ + 1, !.target = << >>,
                   !.err = "No reachable peers in db"]
    ELSE [r EXCEPT !.pc = "retry", !.tries = @ + 1, !.target = << >>]

\* one more attempt of async.retry(20, ...) has failed
attemptFailed(r, err) ==
  IF r.tries + 1 >= 20
    THEN [r EXCEPT !.pc = "done", !.tries = @ + 1, !.target = << >>, !.err = err]
    ELSE [r EXCEPT !.pc = "retry", !.tries = @ + 1, !.target = << >>]

\* Transport.prototype.getFromRandomPeer: peers.list({limit: 1}) of one attempt
getFromRandomPeer_list ==
  /\ refresh.pc = "retry"
  /\ \E rows \in list(db, [limit |-> 1]) :
       refresh' = IF rows = << >>
                    THEN attemptFailed(refresh, "No reachable peers in db")
                    ELSE [refresh EXCEPT !.pc = "request", !.target = rows]
  /\ ev' = [NoEv EXCEPT !.op = "getFromRandomPeer_list"]
  /\ UNCHANGED <<db, removed, now, dbSequence, loaded, boot, messages,
                 dappCalls, dappCount, out>>

\* the request of one attempt ends; when it succeeded, the callback of
\* updatePeersList validates the body, filters it and shrinks removed.
\* body: res.body.peers when present; rnd: Math.random() < 0.5
getFromRandomPeer_response(outcome, body, rnd) ==
  /\ refresh.pc = "request"
  /\ LET g == getFromPeer(refresh.target[1], outcome) IN
       /\ Len(g.removed) <= MaxRemoved
       /\ Len(g.dbSequence) <= MaxQueue
       /\ db' = g.db
       /\ dbSequence' = g.dbSequence
       /\ ev' = [NoEv EXCEPT !.op = "getFromRandomPeer_response", !.err = g.err,
                             !.removes = g.removes, !.bans = g.bans,
                             !.updates = g.updates,
                             !.shrunk = IF g.err = "" /\ peers_isValid(body) /\ rnd
                                         THEN Len(g.removed)
                                              - Len(updatePeersList_shrink(g.removed))
                                         ELSE 0]
       /\ IF g.err # "" THEN
            /\ refresh' = attemptFailed(refresh, g.err)
            /\ removed' = g.removed
          ELSE IF ~peers_isValid(body) THEN
            /\ refresh' = [refresh EXCEPT !.pc = "done", !.target = << >>]
            /\ removed' = g.removed
          ELSE
            /\ refresh' = [refresh EXCEPT
                             !.pc = "each", !.target = << >>,
                             !.peers = updatePeersList_slice(
                                          updatePeersList_filter(g.removed, body[1]))]
            /\ removed' = IF rnd THEN updatePeersList_shrink(g.removed)
                          ELSE g.removed
  /\ UNCHANGED <<now, loaded, boot, messages, dappCalls, dappCount, out>>

\* async.eachLimit(peers, 2, ...): the iteratee starts on the next peer:
\* inspect and the test of the version
updatePeersList_take ==
  /\ refresh.pc = "each"
  /\ refresh.peers # << >>
  /\ Len(refresh.flight) < 2
  /\ LET peer == inspect(Head(refresh.peers)) IN
       refresh' = [refresh EXCEPT
                     !.peers = Tail(@),
                     !.flight = Append(@, [peer |-> peer,
                                           rejected |-> StrLess(peer.version, minVersion)])]
  /\ ev' = [NoEv EXCEPT !.op = "updatePeersList_take"]
  /\ UNCHANGED <<db, removed, now, dbSequence, loaded, boot, messages,
                 dappCalls, dappCount, out>>

\* the iteratee of one peer ends: library.schema.validate has answered, the
\* update is added to dbSequence when the peer is valid
updatePeersList_validated(i) ==
  /\ refresh.pc = "each"
  /\ i \in DOMAIN refresh.flight
  /\ LET f == refresh.flight[i]
         enq == ~f.rejected /\ peer_isValid(f.peer)
     IN
       /\ enq => Len(dbSequence) < MaxQueue
       /\ dbSequence' = IF enq THEN Append(dbSequence, f.peer) ELSE dbSequence
       /\ ev' = [NoEv EXCEPT !.op = "updatePeersList_validated",
                             !.updates = IF enq THEN 1 ELSE 0]
  /\ refresh' = [refresh EXCEPT
                   !.flight = SubSeq(@, 1, i - 1) \o SubSeq(@, i + 1, Len(@)),
                   !.enqueued = IF ~refresh.flight[i].rejected
                                   /\ peer_isValid(refresh.flight[i].peer)
                                  THEN @ + 1 ELSE @]
  /\ UNCHANGED <<db, removed, now, loaded, boot, messages, dappCalls,
                 dappCount, out>>

\* async.eachLimit has no peer left: its callback is the cb of updatePeersList
updatePeersList_end ==
  /\ refresh.pc = "each"
  /\ refresh.peers = << >>
  /\ refresh.flight = << >>
  /\ refresh' = [refresh EXCEPT !.pc = "done"]
  /\ ev' = [NoEv EXCEPT !.op = "updatePeersList_end"]
  /\ UNCHANGED <<db, removed, now, dbSequence, loaded, boot, messages,
                 dappCalls, dappCount, out>>

\* a loop whose callback sets no timer after a cycle that ended with an error
updatePeersList_cb_stop ==
  /\ refresh.pc = "done"
  /\ refresh' = IF refresh.err # "" THEN [refresh EXCEPT !.pc = "stopped"]
                ELSE RefreshIdle
  /\ boot' = IF refresh.owner = "boot" THEN [boot EXCEPT !.pc = "peersReady"]
             ELSE boot
  /\ ev' = [NoEv EXCEPT !.op = "updatePeersList_cb",
                        !.bus = IF refresh.owner = "boot" THEN "peersReady" ELSE ""]
  /\ UNCHANGED <<db, removed, now, dbSequence, loaded, messages, dappCalls,
                 dappCount, out>>

\* the cb of updatePeersList: onBlockchainReady sends peersReady, the loop
\* of onPeersReady sets its timer
updatePeersList_cb ==
  /\ refresh.pc = "done"
  /\ refresh' = RefreshIdle
  /\ boot' = IF refresh.owner = "boot" THEN [boot EXCEPT !.pc = "peersReady"]
             ELSE boot
  /\ ev' = [NoEv EXCEPT !.op = "updatePeersList_cb",
                        !.bus = IF refresh.owner = "boot" THEN "peersReady" ELSE ""]
  /\ UNCHANGED <<db, removed, now, dbSequence, loaded, messages, dappCalls,
                 dappCount, out>>

\* onPeersReady: nextUpdatePeersList, when the timer of the loop fires
nextUpdatePeersList ==
  /\ boot.pc = "peersReady"
  /\ refresh.pc = "idle"
  /\ refresh' = updatePeersList("loop")
  /\ ev' = [NoEv EXCEPT !.op = "nextUpdatePeersList"]
  /\ UNCHANGED <<db, removed, now, dbSequence, loaded, boot, messages,
                 dappCalls, dappCount, out>>

----------------------------------------------------------------------------
(* Start-up *)

\* the bus message blockchainReady: Transport.onBlockchainReady sets loaded,
\* Peers.onBlockchainReady starts to insert the seeds
onBlockchainReady ==
  /\ boot.pc = "init"
  /\ loaded' = TRUE
  /\ boot' = [pc |-> "seeding", next |-> 1]
  /\ ev' = [NoEv EXCEPT !.op = "onBlockchainReady"]
  /\ UNCHANGED <<db, removed, now, dbSequence, messages, dappCalls, dappCount,
                 refresh, out>>

\* Peers.onBlockchainReady: async.eachSeries inserts the next seed
insertSeed ==
  /\ boot.pc = "seeding"
  /\ boot.next <= Len(config_peers_list)
  /\ LET peer == config_peers_list[boot.next] IN
       db' = sql_insertSeed(db, [ip |-> peer.ip, port |-> peer.port, state |-> 2])
  /\ boot' = [boot EXCEPT !.next = @ + 1]
  /\ ev' = [NoEv EXCEPT !.op = "insertSeed"]
  /\ UNCHANGED <<removed, now, dbSequence, loaded, messages, dappCalls,
                 dappCount, refresh, out>>

\* a callback of eachSeries that sends peersReady at once and also starts the
\* refresh cycle
onBlockchainReady_count_early ==
  /\ boot.pc = "seeding"
  /\ boot.next > Len(config_peers_list)
  /\ boot' = [boot EXCEPT !.pc = "peersReady"]
  /\ refresh' = updatePeersList("boot")
  /\ ev' = [NoEv EXCEPT !.op = "onBlockchainReady_count", !.bus = "peersReady"]
  /\ UNCHANGED <<db, removed, now, dbSequence, loaded, messages, dappCalls,
                 dappCount, out>>

\* Peers.onBlockchainReady: the callback of eachSeries: __private.count, then
\* one refresh cycle when there are peers, else peersReady at once
onBlockchainReady_count ==
  /\ boot.pc = "seeding"
  /\ boot.next > Len(config_peers_list)
  /\ IF sql_count(db) > 0
       THEN /\ boot' = [boot EXCEPT !.pc = "refresh"]
            /\ refresh' = updatePeersList("boot")
            /\ ev' = [NoEv EXCEPT !.op = "onBlockchainReady_count"]
       ELSE /\ boot' = [boot EXCEPT !.pc = "peersReady"]
            /\ refresh' = refresh
            /\ ev' = [NoEv EXCEPT !.op = "onBlockchainReady_count",
                                  !.bus = "peersReady"]
  /\ UNCHANGED <<db, removed, now, dbSequence, loaded, messages, dappCalls,
                 dappCount, out>>

----------------------------------------------------------------------------
(* The inputs of the model and the specifications *)

MaxPeers == 2

Cand(ip, port, st, version) ==
  [ip |-> ip, port |-> port, state |-> st, os |-> "linux", version |-> version]

\* the peers a remote node reports in its answer to GET /peer/list
Candidates ==
  {Cand(OtherIp, <<PortA>>, <<2>>, currentVersion),
   Cand(OtherIp, <<PortA>>, <<0>>, currentVersion),
   Cand(SeedIp, <<PortA>>, <<1>>, currentVersion),
   Cand(OtherIp, <<PortA>>, << >>, currentVersion),
   Cand(OtherIp, <<PortA>>, <<1>>, "0.0.1")}

RECURSIVE SeqsUpTo(_, _)
SeqsUpTo(S, n) ==
  IF n = 0 THEN {<< >>}
  ELSE LET shorter == SeqsUpTo(S, n - 1)
       IN shorter \cup {Append(q, x) : q \in shorter, x \in S}

\* res.body of the answer: without peers, or with an array peers
ResponseBodies ==
  {<< >>} \cup {<<l>> : l \in SeqsUpTo(Candidates, MaxPeers)}

Boot ==
  \/ onBlockchainReady
  \/ insertSeed
  \/ onBlockchainReady_count

\* Transport.getFromRandomPeer and the callback of updatePeersList, for the
\* outcomes and the answers that the remote peers give
Refresh(outcomes, bodies) ==
  \/ getFromRandomPeer_list
  \/ \E o \in outcomes, b \in bodies, rnd \in BOOLEAN :
        getFromRandomPeer_response(o, b, rnd)
  \/ updatePeersList_take
  \/ \E i \in 1..2 : updatePeersList_validated(i)
  \/ updatePeersList_end
  \/ updatePeersList_cb

Ready == boot.pc = "peersReady"

BodyBanned == << <<Cand(OtherIp, <<PortA>>, <<0>>, currentVersion)>> >>

(* Spec: the node starts (the seeds, then one refresh cycle, then peersReady);
   once the peers are ready, time passes, the ban manager runs, the other
   modules call peers.state and peers send POST /peer/blocks. No peer is
   removed and the refresh loop does not run (SpecRemove). *)
Next ==
  \/ Boot
  \/ Refresh({"ok-old"}, {<< >>, BodyBanned})
  \/ Ready /\ Tick
  \/ banManager
  \/ DbSequenceRun
  \/ \E key \in PeerKeys, t \in TimeoutArgs : Ready /\ callState(key, 0, t, TRUE)
  \/ \E key \in PeerKeys, st \in 1..2 : Ready /\ callState(key, st, << >>, TRUE)
  \/ \E ip \in Ips, hdr \in {HdrOk, HdrOld}, body \in ObjectBodies :
        Ready /\ Inbound(ip, hdr, TRUE, "POST /blocks", body)

Spec == Init /\ [][Next]_vars

(* SpecInbound: the node starts and its peers send blocks and transactions,
   while the first refresh cycle has not yet made its first attempt. *)
NextInbound ==
  \/ Boot
  \/ InboundLoading
  \/ \E ip \in Ips, hdr \in {HdrOk, HdrOld}, body \in ObjectBodies,
        route \in {"POST /blocks", "POST /transactions"} :
        Inbound(ip, hdr, TRUE, route, body)
  \/ DbSequenceRun

SpecInbound == Init /\ [][NextInbound]_vars

(* SpecFraming: the node starts and answers requests with valid and with
   invalid headers, of our network and of another one. *)
FramingRequests ==
  {<<ip, hdr, lr, route, NoBody>> :
     ip \in Ips, hdr \in {HdrOk, HdrOld}, lr \in BOOLEAN,
     route \in {"GET /height", "POST /blocks"}}
  \cup
  {<<ip, hdr, TRUE, "GET /height", NoBody>> :
     ip \in Ips, hdr \in Headers \ {HdrOk, HdrOld}}

NextFraming ==
  \/ Boot
  \/ InboundLoading
  \/ \E q \in FramingRequests : Inbound(q[1], q[2], q[3], q[4], q[5])
  \/ DbSequenceRun

SpecFraming == Init /\ [][NextFraming]_vars

(* SpecDapp: the node starts and its peers send dapp messages. *)
NextDapp ==
  \/ Boot
  \/ \E hdr \in {HdrOk, HdrOld}, body \in DappBodies :
        Inbound(OtherIp, hdr, TRUE, "POST /dapp/message", body)
  \/ \E h \in Hashes, err \in BOOLEAN : dappMessageDone(h, err)
  \/ DbSequenceRun

SpecDapp == Init /\ [][NextDapp]_vars

(* SpecRemove: the node starts, the refresh loop runs, peers are removed: by
   calls of peers.remove with a callback and by requests that the framing
   rejects. *)
RemoveCandidates ==
  {Cand(OtherIp, <<PortA>>, <<2>>, currentVersion),
   Cand(SeedIp, <<PortA>>, <<1>>, currentVersion)}

NextRemove ==
  \/ Boot
  \/ Refresh({"ok-old"}, {<<l>> : l \in SeqsUpTo(RemoveCandidates, MaxPeers)})
  \/ nextUpdatePeersList
  \/ DbSequenceRun
  \/ \E key \in PeerKeys : callRemove(key, TRUE)
  \/ \E ip \in Ips, hdr \in {HdrNet, HdrNoPort} :
        Inbound(ip, hdr, TRUE, "GET /height", NoBody)

SpecRemove == Init /\ [][NextRemove]_vars

(* SpecOut: the node starts, peers are banned, the refresh loop and the
   broadcasts choose their targets. Peers are banned between two
   refresh cycles; a refresh cycle starts between two broadcasts. *)
Quiet == Ready /\ refresh.pc = "idle"

BodyOther == << <<Cand(OtherIp, <<PortA>>, <<2>>, currentVersion)>> >>

NextOut ==
  \/ Boot
  \/ Refresh({"ok"}, {<< >>, BodyOther})
  \/ out.pc = "idle" /\ nextUpdatePeersList
  \/ DbSequenceRun
  \/ \E key \in PeerKeys : Quiet /\ callState(key, 0, <<1>>, TRUE)
  \/ Quiet /\ broadcast
  \/ \E i \in 1..2, o \in {"ok", "ECONNREFUSED"} : broadcastResponse(i, o)
  \/ broadcastDone

SpecOut == Init /\ [][NextOut]_vars

(* SpecRetry: the node starts with its seed and runs refresh cycles; the
   seed answers, answers with a bad status, or refuses the connection (and
   is banned for it, which leaves the list empty). *)
RetryOutcomes == {"ok-old", "status", "ECONNREFUSED"}

\* an answer without peers, and one with a peer of a version below minVersion
RetryBodies == {<< >>, << <<Cand(OtherIp, <<PortA>>, <<1>>, "0.0.1")>> >>}

NextRetry ==
  \/ Boot
  \/ Refresh(RetryOutcomes, RetryBodies)
  \/ nextUpdatePeersList

SpecRetry == Init /\ [][NextRetry]_vars

(* SpecRetryLive: SpecRetry, where the start-up and a refresh cycle that can
   take a step eventually take it (setImmediate and the callbacks of the
   queries and of the requests are always delivered). *)
SpecRetryLive ==
  /\ Init
  /\ [][NextRetry]_vars
  /\ WF_vars(Boot)
  /\ WF_vars(Refresh(RetryOutcomes, RetryBodies))

(* SpecBroadcast: the node starts, its seed reports four more peers in the
   first refresh cycle, and once the peers are ready the node broadcasts to
   the five peers; a request succeeds or the connection is refused. *)
BodyFour ==
  << [i \in 1..4 |-> Cand(OtherIp, <<PortA + i>>, <<2>>, currentVersion)] >>

BroadcastOutcomes == {"ok-old", "ECONNREFUSED"}

NextBroadcast ==
  \/ Boot
  \/ Refresh({"ok-old"}, {BodyFour})
  \/ DbSequenceRun
  \/ Ready /\ dbSequence = << >> /\ broadcast
  \/ \E i \in 1..5, o \in BroadcastOutcomes : broadcastResponse(i, o)
  \/ broadcastDone

SpecBroadcast == Init /\ [][NextBroadcast]_vars

(* SpecOutcomes: the node starts, its seed reports one more peer, and the
   requests of the broadcasts to the two peers end in every way getFromPeer
   tells apart. *)
NextOutcomes ==
  \/ Boot
  \/ Refresh({"ok-old"}, {BodyOther})
  \/ DbSequenceRun
  \/ Ready /\ broadcast
  \/ \E i \in 1..2, o \in Outcomes : broadcastResponse(i, o)
  \/ broadcastDone

SpecOutcomes == Init /\ [][NextOutcomes]_vars

(* SpecShutdown: the node starts, answers requests and broadcasts new
   blocks; at some time it is shut down (cleanup), after which requests and
   events still arrive. *)
ShutdownRequests ==
  {<<ip, hdr, TRUE, "POST /blocks", body>> :
     ip \in {OtherIp}, hdr \in {HdrOk}, body \in ObjectBodies}

NextShutdown ==
  \/ Boot
  \/ cleanup
  \/ InboundLoading
  \/ \E q \in ShutdownRequests : Inbound(q[1], q[2], q[3], q[4], q[5])
  \/ DbSequenceRun
  \/ \E bc \in BOOLEAN : onNewBlock(bc)
  \/ \E i \in 1..2, o \in BroadcastOutcomes : broadcastResponse(i, o)
  \/ broadcastDone

SpecShutdown == Init /\ [][NextShutdown]_vars

(* SpecQueue: the node starts, its refresh cycles hear of one other peer and
   that peer sends requests with two operating systems, so that updates of
   the refresh loop, of the outbound responses and of the inbound framing
   wait in dbSequence together. *)
BodyQueue == << <<Cand(OtherIp, <<PortA>>, <<1>>, "5.1.0")>> >>

NextQueue ==
  \/ Boot
  \/ Refresh({"ok"}, {BodyQueue})
  \/ nextUpdatePeersList
  \/ DbSequenceRun
  \/ \E hdr \in {HdrOk, HdrBsd} :
        Inbound(OtherIp, hdr, TRUE, "GET /height", NoBody)

SpecQueue == Init /\ [][NextQueue]_vars

(* SpecIngest: the node starts and its first refresh cycle receives a list
   longer than maxUpdatePeers, or a list with candidates that have to be
   rejected. *)
MaxList == 21

BodyLong ==
  << [i \in 1..MaxList |-> Cand(OtherIp, <<PortA + i>>, <<1>>, currentVersion)] >>

BodyMixed ==
  << << Cand(OtherIp, <<PortA + 1>>, <<1>>, "0.0.1"),
        Cand(OtherIp, <<PortA + 2>>, <<2>>, ""),
        Cand(OtherIp, <<PortA + 3>>, << >>, currentVersion),
        Cand(OtherIp, << >>, <<1>>, currentVersion),
        Cand(OtherIp, <<PortA + 4>>, <<3>>, currentVersion),
        Cand(OtherIp, <<PortA + 5>>, <<2>>, "5.1.0") >> >>

IngestBodies == {BodyLong, BodyMixed}

NextIngest ==
  \/ Boot
  \/ Refresh({"ok-old"}, IngestBodies)
  \/ DbSequenceRun

SpecIngest == Init /\ [][NextIngest]_vars

(* SpecShrink: the node starts, its refresh cycles succeed, fail or get an
   answer without a peer list, and in between peers are removed by requests
   that the framing rejects. *)
ShrinkBodies == {<< >>, BodyOther}

NextShrink ==
  \/ Boot
  \/ Refresh({"ok-old", "status"}, ShrinkBodies)
  \/ nextUpdatePeersList
  \/ DbSequenceRun
  \/ \E ip \in Ips, hdr \in {HdrNet, HdrNoPort} :
        Inbound(ip, hdr, TRUE, "GET /height", NoBody)

SpecShrink == Init /\ [][NextShrink]_vars

(* SpecLoops: the node starts; after peersReady the refresh loop and the ban
   manager loop run, time passes and the other modules ban peers.  The
   timers of the two loops fire and the queries of the start-up and of the
   ban manager are answered (weak fairness); nothing is assumed about the
   time that the requests of a refresh cycle take. *)
LoopBans == {<<1>>}

NextLoops ==
  \/ Boot
  \/ Refresh({"ok-old"}, ShrinkBodies)
  \/ nextUpdatePeersList
  \/ Ready /\ Tick
  \/ banManager
  \/ DbSequenceRun
  \/ \E key \in PeerKeys, t \in LoopBans : Ready /\ callState(key, 0, t, TRUE)

SpecLoops ==
  /\ Init
  /\ [][NextLoops]_vars
  /\ WF_vars(Boot)
  /\ WF_vars(banManager)
  /\ WF_vars(updatePeersList_cb)
  /\ WF_vars(nextUpdatePeersList)

----------------------------------------------------------------------------
(* The properties *)

Range(s) == {s[i] : i \in DOMAIN s}

\* the keys of the peers of the configured seed list
Whitelist == {<<config_peers_list[i].ip, config_peers_list[i].port>> :
                i \in DOMAIN config_peers_list}

\* C1: for every peer of the seed list, a call of state(ip, port, 0, t) with
\* a callback gives the error 'Peer in white list' and leaves the table as it
\* is, so that no row of a peer of the seed list is ever in state BANNED.
C1_WhitelistRejectsBan ==
  [][\A key \in Whitelist, t \in TimeoutArgs :
       callState(key, 0, t, TRUE) =>
         /\ ev'.err = "Peer in white list"
         /\ db' = db
         /\ (key \in DOMAIN db' => db'[key].state # BANNED)]_vars

\* C2: for every peer of the seed list, remove(ip, port) with a callback (a
\* direct call, or the call made for a request that the framing rejects) gives
\* the error 'Peer in white list', deletes no row and adds nothing to
\* removed; once the seeds are inserted their rows stay in the table.
C2_WhitelistRejectsRemove ==
  [][/\ \A key \in Whitelist :
          /\ callRemove(key, TRUE) =>
               ev'.err = "Peer in white list" /\ db' = db /\ removed' = removed
          /\ \A hdr \in {HdrNet} :
               Inbound(key[1], hdr, TRUE, "GET /height", NoBody) =>
                 ev'.err = "Peer in white list" /\ db' = db /\ removed' = removed
     /\ \A key \in Whitelist : key \in DOMAIN db => key \in DOMAIN db']_vars

\* a removal of a seed has been refused while its row is in the table
C2_Witness ==
  /\ ev.op \in {"remove", "inbound"}
  /\ ev.err = "Peer in white list"
  /\ Whitelist \subseteq DOMAIN db
  /\ boot.pc = "peersReady"

\* C3: in every state, for every row of the table, state = BANNED if and only
\* if clock is not null.
C3_BannedIffClock ==
  \A k \in DOMAIN db : (db[k].state = BANNED) <=> (db[k].clock # << >>)

\* C4: in the refresh cycle, after an ip has been added to removed, the
\* candidates that the filter keeps are exactly the candidates of the answer
\* whose ip is not in removed: none with an ip of removed goes on to be
\* updated, none with another ip is dropped.
C4_RemovedFiltered ==
  [][\A b \in {<<l>> : l \in SeqsUpTo(RemoveCandidates, MaxPeers)}, rnd \in BOOLEAN :
       (getFromRandomPeer_response("ok-old", b, rnd) /\ refresh'.pc = "each") =>
          LET notRemoved(peer) == peer.ip \notin Range(removed)
          IN refresh'.peers = SelectSeq(b[1], notRemoved)]_vars

\* C5: a run of banManager at time now changes exactly the rows whose clock
\* is not null and <= now: each gets state DISCONNECTED and clock null; the
\* rows with a later clock and the rows without a clock are left as they are
\* (so a peer banned for 1 second is in state 1 without a clock after the run
\* that follows 2 seconds later).
C5_BanManagerExact ==
  [][banManager =>
       /\ DOMAIN db' = DOMAIN db
       /\ \A k \in DOMAIN db :
            IF db[k].clock # << >> /\ db[k].clock[1] <= now
              THEN /\ db'[k].state = DISCONNECTED
                   /\ db'[k].clock = << >>
                   /\ db'[k].os = db[k].os
                   /\ db'[k].version = db[k].version
              ELSE db'[k] = db[k]]_vars

\* banManager has run two seconds after a ban: it has reset one row and has
\* left a row with a later clock banned
C5_Witness ==
  /\ ev.op = "banManager"
  /\ ev.cleared >= 1
  /\ now >= 2000
  /\ \E k \in DOMAIN db : db[k].state = DISCONNECTED /\ db[k].clock = << >>
  /\ \E k \in DOMAIN db : db[k].state = BANNED /\ db[k].clock # << >>
                          /\ db[k].clock[1] > now

\* C6 as stated: state(ip, port, 0, timeoutSeconds) on a stored peer that is
\* not of the seed list stores clock = now + max(timeoutSeconds, 1) * 1000,
\* for timeoutSeconds 0, negative, positive or absent, so the clock is never
\* before now + 1000; for state 1 or 2 the stored clock is null.
C6_ClockMax ==
  [][/\ \A key \in PeerKeys \ Whitelist, t \in TimeoutArgs :
          (callState(key, 0, t, TRUE) /\ key \in DOMAIN db) =>
             /\ db'[key].clock = <<now + (IF t = << >> \/ t[1] < 1 THEN 1 ELSE t[1]) * 1000>>
             /\ db'[key].clock[1] >= now + 1000
     /\ \A key \in PeerKeys \ Whitelist, st \in 1..2 :
          (callState(key, st, << >>, TRUE) /\ key \in DOMAIN db) =>
             db'[key].clock = << >>]_vars

\* C6, amended: state(ip, port, 0, timeoutSeconds) on a stored peer that is
\* not of the seed list stores state 0 and clock = now + timeoutSeconds * 1000
\* when timeoutSeconds is a non-zero integer, and now + 1000 when it is 0 or
\* absent: the clock is at least now + 1000 when timeoutSeconds is absent or
\* >= 0, and is before now when timeoutSeconds is negative; for state 1 or 2
\* the stored clock is null.
C6_Clock ==
  [][/\ \A key \in PeerKeys \ Whitelist, t \in TimeoutArgs :
          (callState(key, 0, t, TRUE) /\ key \in DOMAIN db) =>
             /\ db'[key].state = BANNED
             /\ db'[key].clock = <<now + (IF t = << >> \/ t[1] = 0 THEN 1 ELSE t[1]) * 1000>>
             /\ (t = << >> \/ t[1] >= 0) => db'[key].clock[1] >= now + 1000
             /\ (t # << >> /\ t[1] < 0) => db'[key].clock[1] < now
     /\ \A key \in PeerKeys \ Whitelist, st \in 1..2 :
          (callState(key, st, << >>, TRUE) /\ key \in DOMAIN db) =>
             /\ db'[key].state = st
             /\ db'[key].clock = << >>]_vars

\* state(ip, port, 0, -1) has just banned a stored peer that is not of the
\* seed list: its clock is one second before now
C6_Witness ==
  /\ ev.op = "state"
  /\ ev.err = ""
  /\ \E key \in (PeerKeys \ Whitelist) \cap DOMAIN db :
        db[key].state = BANNED /\ db[key].clock = <<now - 1000>>

\* the rows are rows of the table d whose state is not BANNED
NotBannedIn(d, rows) ==
  \A i \in DOMAIN rows :
     LET key == <<rows[i].ip, rows[i].port>> IN
       /\ key \in DOMAIN d
       /\ d[key].state # BANNED
       /\ rows[i].state = d[key].state

\* C7: every peer that list returns has a state other than BANNED in the
\* table at the time of the query; broadcast and getFromRandomPeer take
\* their targets from list, so no request is started to a peer that list saw
\* as BANNED.
C7_ListExcludesBanned ==
  [][/\ broadcast => NotBannedIn(db, out'.peers)
     /\ getFromRandomPeer_list => NotBannedIn(db, refresh'.target)
     /\ \A i \in out'.flight : out'.peers[i].state # BANNED
     /\ \A i \in DOMAIN refresh'.target : refresh'.target[i].state # BANNED]_vars

\* a broadcast has taken its targets while a peer of the table was banned
C7_Witness ==
  /\ ev.op = "broadcast"
  /\ out.pc = "fanout"
  /\ Len(out.peers) >= 1
  /\ \E k \in DOMAIN db : db[k].state = BANNED

\* the framing rejects the request: the headers are not valid
InvalidHeaders(hdr) == hdr.port = << >> \/ hdr.os = ""

\* the framing rejects the request: the nethash is not ours
WrongNethash(hdr) == ~InvalidHeaders(hdr) /\ hdr.nethash # config_nethash

C9_NormalizeFailureBans ==
  [][ev'.op = "inbound" =>
       \A ip \in Ips, hdr \in {HdrOk, HdrOld}, body \in ObjectBodies,
          route \in {"POST /blocks", "POST /transactions"} :
          Inbound(ip, hdr, TRUE, route, body) =>
            LET key == <<ip, PortA>> IN
            IF ~body.ok
              THEN /\ ev'.bans = <<3600>>
                   /\ ev'.status = 200
                   /\ ev'.body = "success:false"
                   /\ ev'.bus = ""
                   /\ ev'.balances = 0
                   /\ DOMAIN db' = DOMAIN db
                   /\ \A k \in DOMAIN db :
                        IF k # key THEN db'[k] = db[k]
                        ELSE k \notin Whitelist =>
                               /\ db'[k].state = BANNED
                               /\ db'[k].clock = <<now + 3600 * 1000>>
              ELSE /\ ev'.bans = << >>
                   /\ db' = db
                   /\ route = "POST /blocks" => ev'.bus = "receiveBlock"
                   /\ route = "POST /transactions" => ev'.balances = 1]_vars

\* a POST /blocks with a body that is not normal has banned its sender
C9_Witness ==
  /\ ev.op = "inbound"
  /\ ev.routed = "POST /blocks"
  /\ ev.bans = <<3600>>
  /\ ev.body = "success:false"
  /\ <<OtherIp, PortA>> \in DOMAIN db
  /\ db[<<OtherIp, PortA>>].state = BANNED
  /\ db[<<OtherIp, PortA>>].clock = <<now + 3600000>>

\* C10: a POST /dapp/message whose hash is not hashsum(body, timestamp) is
\* rejected, is not passed to dapps.message and is not recorded in messages;
\* of the requests with the same valid hash, in any interleaving, the first
\* is passed to dapps.message and no other: dapps.message is called exactly
\* once for the hash.
C10_DappMessageOnce ==
  [][/\ \A h \in Hashes :
          /\ dappCount'[h] <= 1
          /\ dappCount'[h] = 1 <=> h \in messages'
     /\ dappCalls' \subseteq messages'
     /\ ev'.op = "inbound" =>
          \A hdr \in {HdrOk, HdrOld}, body \in DappBodies :
             (Inbound(OtherIp, hdr, TRUE, "POST /dapp/message", body)
                /\ body.dappid /\ body.timestamp /\ body.hash # "") =>
               IF hashsum(body.body, body.timestamp) # body.hash
                 THEN /\ messages' = messages
                      /\ dappCount' = dappCount
                      /\ dappCalls' = dappCalls
                      /\ ev'.dapps = 0
                      /\ ev'.body = "success:false"
                 ELSE /\ body.hash \in messages'
                      /\ dappCount'[body.hash] = 1
                      /\ ev'.dapps = (IF body.hash \in messages THEN 0 ELSE 1)
                      /\ \A h \in Hashes \ {body.hash} :
                           dappCount'[h] = dappCount[h]]_vars

\* a request with a hash already recorded has arrived while the call of
\* dapps.message for the first one is still running
C10_Witness ==
  /\ ev.op = "inbound"
  /\ ev.routed = "POST /dapp/message"
  /\ ev.body = "not sent"
  /\ \E h \in Hashes : h \in dappCalls /\ dappCount[h] = 1

\* C11: getFromRandomPeer makes at most 20 attempts; an attempt is one call
\* of peers.list with limit 1, followed by one request when the list is not
\* empty and by none when it is empty; the first attempt whose request
\* succeeds ends the retries; an attempt that fails is followed by another
\* one unless it is the 20th, so that with an empty list in every attempt
\* getFromRandomPeer fails after exactly 20 attempts and no request.
C11_RetryTerminates ==
  [][/\ refresh'.tries <= 20
     /\ refresh'.pc \in {"retry", "request"} => refresh'.tries < 20
     /\ getFromRandomPeer_list =>
          IF sql_randomList(db) = {}
            THEN /\ refresh'.pc \in {"retry", "done"}
                 /\ refresh'.target = << >>
                 /\ refresh'.tries = refresh.tries + 1
                 /\ refresh'.pc = "done" <=> refresh'.tries = 20
                 /\ db' = db /\ removed' = removed /\ dbSequence' = dbSequence
                 /\ ev'.removes = 0 /\ ev'.bans = << >> /\ ev'.updates = 0
            ELSE /\ refresh'.pc = "request"
                 /\ Len(refresh'.target) = 1
                 /\ refresh'.tries = refresh.tries
     /\ \A o \in RetryOutcomes, b \in RetryBodies, rnd \in BOOLEAN :
          getFromRandomPeer_response(o, b, rnd) =>
            IF o = "ok-old"
              THEN /\ refresh'.pc \in {"each", "done"}
                   /\ refresh'.tries = refresh.tries
                   /\ refresh'.err = ""
              ELSE /\ refresh'.pc \in {"retry", "done"}
                   /\ refresh'.tries = refresh.tries + 1
                   /\ refresh'.pc = "done" <=> refresh'.tries = 20]_vars

\* getFromRandomPeer has failed in its 20th attempt with an empty list
C11_Witness ==
  /\ ev.op = "getFromRandomPeer_list"
  /\ refresh.pc = "done"
  /\ refresh.tries = 20
  /\ sql_randomList(db) = {}

\* C12 as stated: whenever getFromRandomPeer has used up its 20 attempts, the
\* error it gives to its callback is "No reachable peers in db".
C12_ExhaustedError ==
  (refresh.pc = "done" /\ refresh.tries = 20) =>
     refresh.err = "No reachable peers in db"

\* C12, amended: when getFromRandomPeer has used up its 20 attempts, the error
\* it gives to its callback is the error of the 20th attempt: "No reachable
\* peers in db" when the list of that attempt was empty, the error of
\* getFromPeer when the request of that attempt failed.
C12_LastAttemptError ==
  [][/\ (getFromRandomPeer_list /\ refresh'.pc = "done") =>
          /\ refresh'.tries = 20
          /\ refresh'.err = "No reachable peers in db"
     /\ \A o \in RetryOutcomes, b \in RetryBodies, rnd \in BOOLEAN :
          (getFromRandomPeer_response(o, b, rnd) /\ refresh'.tries = 20) =>
             /\ refresh'.pc = "done"
             /\ refresh'.err = getFromPeer(refresh.target[1], o).err
             /\ refresh'.err # "No reachable peers in db"
             /\ refresh'.err = ev'.err]_vars

\* the request of the 20th attempt has failed: the error is not that of the
\* empty list
C12_Witness ==
  /\ ev.op = "getFromRandomPeer_response"
  /\ refresh.pc = "done"
  /\ refresh.tries = 20
  /\ refresh.err \in {"status", "Request failed"}

C14_BroadcastReachesAll ==
  [][/\ Cardinality(out'.flight) <= 3
     /\ out'.called <= 1
     /\ (out.called = 0 /\ out'.called = 1) =>
          /\ out'.next = Len(out'.peers) + 1
          /\ out'.flight = {}
     /\ broadcastDone =>
          /\ out.called = 1
          /\ out.next = Len(out.peers) + 1]_vars

\* C15: every outcome of getFromPeer gives one action on the peer and one
\* result: a status other than 200, invalid headers or another nethash: one
\* remove, no ban, no update, an error; EUNAVAILABLE or ETIMEOUT: one remove,
\* an error; any other transport error: one ban of 600 seconds, no remove, an
\* error; a valid answer: no remove, no ban, no error, and one update (state
\* 2, the os and version of the answer) added to dbSequence exactly when the
\* version of the answer is currentVersion.
C15_OutcomeActions ==
  [][ev'.op = "broadcastResponse" =>
       \A i \in 1..2, o \in Outcomes :
          broadcastResponse(i, o) =>
            LET row == out.peers[i]
                key == <<row.ip, row.port>>
                r == remove(db, removed, row.ip, row.port, TRUE)
            IN
            CASE o \in {"status", "headers", "nethash", "EUNAVAILABLE", "ETIMEOUT"} ->
                   /\ ev'.removes = 1 /\ ev'.bans = << >> /\ ev'.updates = 0
                   /\ ev'.err # ""
                   /\ db' = r.db /\ removed' = r.removed
                   /\ dbSequence' = dbSequence
              [] o = "ECONNREFUSED" ->
                   /\ ev'.removes = 0 /\ ev'.bans = <<600>> /\ ev'.updates = 0
                   /\ ev'.err # ""
                   /\ removed' = removed /\ dbSequence' = dbSequence
                   /\ DOMAIN db' = DOMAIN db
                   /\ \A k \in DOMAIN db :
                        IF k # key THEN db'[k] = db[k]
                        ELSE k \notin Whitelist =>
                               /\ db'[k].state = BANNED
                               /\ db'[k].clock = <<now + 600 * 1000>>
              [] o = "ok" ->
                   /\ ev'.removes = 0 /\ ev'.bans = << >> /\ ev'.updates = 1
                   /\ ev'.err = ""
                   /\ db' = db /\ removed' = removed
                   /\ dbSequence' =
                        Append(dbSequence,
                               [ip |-> row.ip, port |-> row.port, state |-> <<2>>,
                                os |-> "linux", version |-> currentVersion])
              [] o = "ok-old" ->
                   /\ ev'.removes = 0 /\ ev'.bans = << >> /\ ev'.updates = 0
                   /\ ev'.err = ""
                   /\ db' = db /\ removed' = removed
                   /\ dbSequence' = dbSequence]_vars

\* a request has ended with an error for which the peer has been removed
C15_Witness ==
  /\ ev.op = "broadcastResponse"
  /\ ev.removes = 1
  /\ ev.err = "Request failed"
  /\ removed = <<OtherIp>>
  /\ <<OtherIp, PortA>> \notin DOMAIN db

\* C16: while loaded is false, before onBlockchainReady and after cleanup,
\* an inbound request is answered with HTTP 500 'Blockchain is loading' and
\* has no effect: no remove, no ban, no update added, no enableForging, no
\* route handler, nothing added to messages.
C16_LoadingGate ==
  [][/\ cleanup => ~loaded'
     /\ (ev'.op = "inbound" /\ ~loaded) =>
          /\ ev'.status = 500
          /\ ev'.error = "Blockchain is loading"
          /\ ev'.removes = 0 /\ ev'.bans = << >> /\ ev'.updates = 0
          /\ ~ev'.forging /\ ev'.routed = "" /\ ev'.dapps = 0
          /\ db' = db /\ removed' = removed /\ dbSequence' = dbSequence
          /\ messages' = messages /\ dappCalls' = dappCalls
          /\ dappCount' = dappCount
     /\ (ev'.op = "inbound" /\ loaded) => ev'.error # "Blockchain is loading"]_vars

\* a request has been refused after cleanup
C16_Witness ==
  /\ ev.op = "inbound"
  /\ ev.status = 500
  /\ ev.error = "Blockchain is loading"
  /\ ~loaded
  /\ boot.pc # "init"

\* C17: once cleanup has set loaded to false, an event with broadcast = true
\* (onNewBlock and the like) starts nothing: no query of peers.list and no
\* request.
C17_NoBroadcastAfterCleanup ==
  [][(~loaded /\ boot.pc # "init") =>
        /\ ~onNewBlock(TRUE)
        /\ (out.pc = "idle" => out'.pc = "idle")]_vars

----------------------------------------------------------------------------
\* C18: every write of the peers table made by peers.update, by peers.state
\* (the bans of Transport included) and by the seed insertion is the step of
\* a dbSequence job.  Under SpecInbound the table is written by nothing else
\* (no removal, no banManager), so every step that changes it would have to
\* be DbSequenceRun.  The seed insertion (peers.js 373) and the ban of
\* __private.banPeer (transport.js 376-380 -> peers.js 252-279) send their
\* query with library.db.query at once, also while an update job is queued.
C18_WritesAreJobs ==
  [][db' # db => (ev'.op = "update" /\ dbSequence # << >>
                  /\ dbSequence' = Tail(dbSequence))]_vars

----------------------------------------------------------------------------
\* the key of the row that an update job writes
JobKey(job) == <<job.ip, job.port>>

\* the table after the jobs of q have run in their order, nothing between
RECURSIVE Drain(_, _)
Drain(d, q) ==
  IF q = << >> THEN d ELSE Drain(update(d, Head(q)), Tail(q))

\* C19: the peers.update jobs of dbSequence are applied one at a time in the
\* order of their enqueueing: a job step applies the head of the queue and
\* removes it, every other step leaves the queue as it is or appends to its
\* end; and when the pending jobs are run, the row of every (ip, port) with
\* pending updates holds the os, version and state of the update of that
\* key that was enqueued last.
C19_QueueOrder ==
  /\ [][(ev'.op = "update" =>
            (/\ dbSequence # << >>
             /\ dbSequence' = Tail(dbSequence)
             /\ db' = update(db, Head(dbSequence))))
         /\
         (ev'.op # "update" =>
            (/\ Len(dbSequence') >= Len(dbSequence)
             /\ SubSeq(dbSequence', 1, Len(dbSequence)) = dbSequence))]_vars
  /\ [](\A i \in DOMAIN dbSequence :
          LET job == dbSequence[i]
              last == \A j \in DOMAIN dbSequence :
                        j > i => JobKey(dbSequence[j]) # JobKey(job)
              row == Drain(db, dbSequence)[JobKey(job)]
          IN last => /\ row.os = job.os
                     /\ row.version = job.version
                     /\ row.state = job.state[1])

\* the first of two different updates of one peer has just been applied (the
\* seed's row was never updated), the second one is still pending
C19_Witness ==
  /\ ev.op = "update"
  /\ Len(dbSequence) = 1
  /\ JobKey(dbSequence[1]) = <<OtherIp, PortA>>
  /\ <<OtherIp, PortA>> \in DOMAIN db
  /\ <<SeedIp, PortA>> \in DOMAIN db
  /\ db[<<SeedIp, PortA>>].os = Null
  /\ LET row == db[<<OtherIp, PortA>>] IN
       /\ row.state # dbSequence[1].state[1]
       /\ row.version # dbSequence[1].version

----------------------------------------------------------------------------
\* the requests of SpecFraming that pass the validation of the headers and
\* of the nethash
AcceptedRequests == {q \in FramingRequests : q[2] \in {HdrOk, HdrOld}}

\* C20: for an inbound request that passes the validation of its headers and
\* of its nethash, exactly one peers.update of the peer with state 2 and the
\* os and version of the headers is appended to dbSequence if and only if
\* the version of the peer is currentVersion; delegates.enableForging is
\* called exactly in that case when blocks.lastReceipt() is empty; and the
\* request reaches its route in both cases, while the table is still as it
\* was (the enqueued update has not run).
C20_FramingUpdate ==
  [][ev'.op = "inbound" =>
       \A q \in AcceptedRequests :
          Inbound(q[1], q[2], q[3], q[4], q[5]) =>
            LET enq == q[2].version = currentVersion IN
              /\ ev'.updates = (IF enq THEN 1 ELSE 0)
              /\ enq => /\ Len(dbSequence') = Len(dbSequence) + 1
                        /\ SubSeq(dbSequence', 1, Len(dbSequence)) = dbSequence
                        /\ LET job == dbSequence'[Len(dbSequence')] IN
                             /\ job.ip = q[1]
                             /\ job.port = q[2].port[1]
                             /\ job.state = <<2>>
                             /\ job.os = q[2].os
                             /\ job.version = q[2].version
              /\ ~enq => dbSequence' = dbSequence
              /\ ev'.forging = (enq /\ ~q[3])
              /\ ev'.routed = q[4]
              /\ ev'.status = 200
              /\ db' = db]_vars

\* a peer of the current version was framed before any block was received:
\* forging is enabled, the route has answered and the update of the peer,
\* which the table does not hold yet, waits in dbSequence
C20_Witness ==
  /\ ev.op = "inbound"
  /\ ev.updates = 1
  /\ ev.forging
  /\ ev.routed = "GET /height"
  /\ ev.status = 200
  /\ dbSequence # << >>
  /\ dbSequence[Len(dbSequence)].state = <<2>>
  /\ JobKey(dbSequence[Len(dbSequence)]) \notin DOMAIN db

----------------------------------------------------------------------------
\* C21: in one refresh cycle peers.update is enqueued only for candidates of
\* the received list (after inspect) whose version is not below minVersion
\* and that have an ip, a port in 1..65535 and a state in 0..2; a candidate
\* below minVersion or without version is never enqueued; a cycle enqueues
\* at most maxUpdatePeers updates (20, the configuration value being
\* absent) and validates at most 2 candidates at a time.
C21_IngestGate ==
  /\ [][/\ (ev'.op = "getFromRandomPeer_response" /\ refresh'.pc = "each") =>
             \A b \in IngestBodies, rnd \in BOOLEAN :
                getFromRandomPeer_response("ok-old", b, rnd) =>
                  \A i \in DOMAIN refresh'.peers :
                     \E j \in DOMAIN b[1] : refresh'.peers[i] = b[1][j]
        /\ ev'.op = "updatePeersList_take" =>
             /\ refresh.peers # << >>
             /\ refresh'.flight[Len(refresh'.flight)].peer = inspect(Head(refresh.peers))
        /\ ev'.op = "updatePeersList_validated" =>
             \A i \in DOMAIN refresh.flight :
                updatePeersList_validated(i) =>
                  LET peer == refresh.flight[i].peer IN
                    IF ev'.updates = 1
                      THEN /\ dbSequence' = Append(dbSequence, peer)
                           /\ refresh'.enqueued = refresh.enqueued + 1
                           /\ peer.version \notin {"0.0.1", "0.0.0"}
                           /\ peer.ip # ""
                           /\ peer.port \in 1..65535
                           /\ peer.state # << >>
                           /\ peer.state[1] \in 0..2
                      ELSE /\ dbSequence' = dbSequence
                           /\ refresh'.enqueued = refresh.enqueued
        /\ (ev'.op \notin {"updatePeersList_validated", "update"}) =>
             dbSequence' = dbSequence
        ]_vars
  /\ [](/\ refresh.enqueued <= 20
         /\ Len(refresh.flight) <= 2
         /\ \A k \in DOMAIN db : db[k].version \notin {"0.0.1", "0.0.0"})

\* the cycle that received 21 valid candidates has ended with 20 updates
C21_Witness ==
  /\ refresh.pc = "done"
  /\ refresh.enqueued = 20
  /\ <<OtherIp, PortA + 20>> \in DOMAIN db
  /\ <<OtherIp, PortA + 21>> \notin DOMAIN db

----------------------------------------------------------------------------
\* C22: a peer that is not in the table and is learned through the refresh
\* loop is stored with state DISCONNECTED, whatever state the remote peer
\* reported for it.  In SpecIngest the refresh loop is the only source of
\* update jobs, so every row that a job creates would have state 1.
C22_RefreshStoresDisconnected ==
  [][ev'.op = "update" =>
       \A k \in DOMAIN db' \ DOMAIN db : db'[k].state = DISCONNECTED]_vars

----------------------------------------------------------------------------
\* C23: the removed sequence is bounded: its length stays below a fixed bound
\* after any sequence of removals and refresh cycles.  The only limit on
\* its length in the model is MaxRemoved, where the model stops looking; a
\* bounded cache would stay below it.
C23_RemovedBounded == Len(removed) < MaxRemoved

----------------------------------------------------------------------------
----------------------------------------------------------------------------
\* C25: after peersReady each loop starts its next cycle after every cycle
\* that has ended, with or without an error: a refresh cycle that has ended
\* is followed by the first attempt of the next one, and a new cycle starts
\* only when none is in progress; the ban manager runs again and again,
\* also while a refresh cycle waits for the answers to its requests, so a
\* ban whose clock has passed is eventually cleared (or the peer is banned
\* anew).
C25_LoopsKeepRunning ==
  /\ [][ev'.op = "nextUpdatePeersList" =>
         (refresh.pc = "idle" /\ boot.pc = "peersReady" /\ refresh'.pc = "retry")]_vars
  /\ (refresh.pc = "done") ~> (refresh.pc = "retry" /\ refresh.owner = "loop")
  /\ [](Ready => <>(ev.op = "banManager"))
  /\ \A k \in PeerKeys :
       (Ready /\ k \in DOMAIN db /\ db[k].clock # << >> /\ db[k].clock[1] <= now)
         ~> (k \notin DOMAIN db \/ db[k].clock = << >> \/ db[k].clock[1] > now)

\* the ban manager has cleared a ban whose clock had passed while a cycle of
\* the refresh loop waits for the answer to its request
C25_Witness ==
  /\ ev.op = "banManager"
  /\ ev.cleared >= 1
  /\ now > 0
  /\ refresh.owner = "loop"
  /\ refresh.pc = "request"

----------------------------------------------------------------------------
\* C26: a row leaves the state BANNED only by being removed or by a run of
\* banManager at a time when its clock has passed; in particular no update
\* job of dbSequence gives a banned row the state 1 or 2, so the ban of a
\* POST /blocks or POST /transactions request outlives the update that the
\* framing enqueued for the same request.
C26_BanOutlivesUpdate ==
  [][\A k \in DOMAIN db :
        (db[k].state = BANNED /\ k \in DOMAIN db' /\ db'[k].state # BANNED) =>
          /\ ev'.op = "banManager"
          /\ db[k].clock # << >>
          /\ db[k].clock[1] <= now]_vars

----------------------------------------------------------------------------
\* C27: once a removal has deleted the row of a peer, no update job that was
\* enqueued before the removal inserts the peer again: right after the step
\* that deletes a row, running the jobs that wait in dbSequence (all of them
\* enqueued before) leaves the peer absent from the table.
C27_RemovedStaysAbsent ==
  [][\A k \in DOMAIN db \ DOMAIN db' :
        k \notin DOMAIN Drain(db', dbSequence')]_vars

----------------------------------------------------------------------------
\* C28: every inbound request gets one completed response: the handler of a
\* request either sends the response itself (a body is written and the
\* response ended) or hands the request to modules.dapps.message, whose
\* callback sends it; a POST /dapp/message with a hash that is already
\* recorded is among the requests answered by the handler.
C28_EveryRequestAnswered ==
  [][ev'.op = "inbound" =>
       \/ ev'.status # 0 /\ ev'.body \notin {"", "not sent"}
       \/ ev'.dapps = 1]_vars

============================================================================
